---- MODULE Spec2Model ----
(***************************************************************************)
(* Model of lib/cli.js of AVA: the command-line orchestration layer.       *)
(* exports.run is a single async function; each action below is one        *)
(* synchronous stretch of it (or one callback), in source order.           *)
(*                                                                         *)
(* JavaScript values are encoded as records [t, n, d]:                     *)
(*   t = "undefined" | "boolean" | "number" | "NaN" | "string"             *)
(*   boolean: n = 1 for true, 0 for false                                  *)
(*   number : the rational n/d with d > 0                                  *)
(*   string : n = 0 for the empty string '', n > 0 names a non-empty one   *)
(*            (Str(10) is '10s', the default timeout)                      *)
(***************************************************************************)
EXTENDS Integers, Sequences, FiniteSets, TLC

VARIABLES
    cfgFile,      \* environment: what loadConfig() finds (a config or an error)
    cmdline,      \* environment: the command line handed to yargs
    isCi,         \* environment: require('is-ci')
    cacheFiles,   \* environment: entries of <projectDir>/node_modules/.cache/ava
    pc,           \* position of run() / of the process
    conf,         \* let conf
    confError,    \* let confError
    argv,         \* const {argv}
    debug,        \* let debug
    resetCache,   \* let resetCache
    combined,     \* const combined
    checks,       \* the fatal checks evaluated so far, in order
    exitCode,     \* exit code of the process (NoCode while none is set)
    stderr,       \* lines written with console.error
    stdout,       \* lines written with console.log
    api,          \* const api (Null until constructed)
    reporter,     \* let reporter
    isTTY,        \* process.stdout.isTTY, "unread" until it is read
    watcher,      \* const watcher constructed
    delState,     \* the promise of del(): "idle", "pending", "resolved", "rejected"
    cacheBefore,  \* the cache directory when this invocation started
    runs,         \* earlier invocations: [code, before, after]
    apiRunCalls,  \* how often run() itself has called api.run
    plans,        \* the run plans the engine has begun: [debug, files, announced, listeners]
    emitted,      \* stateChange events the engine has emitted so far
    handled,      \* stateChange events the listener of line 400 was called with
    reporterCalls, \* calls of reporter.startRun / reporter.endRun, in order
    debugWithoutSpecificFile, \* let debugWithoutSpecificFile
    runStatus     \* what api.run resolved with (Null until then)

vars == <<cfgFile, cmdline, isCi, cacheFiles, pc, conf, confError, argv, debug,
          resetCache, combined, checks, exitCode, stderr, stdout, api, reporter,
          isTTY, watcher, delState, cacheBefore, runs, apiRunCalls, plans, emitted,
          handled, reporterCalls, debugWithoutSpecificFile, runStatus>>

envVars == <<cfgFile, cmdline, isCi>>

\* what the engine's events and the end of the run change (lines 397-434)
runVars == <<apiRunCalls, plans, emitted, handled, reporterCalls,
             debugWithoutSpecificFile, runStatus>>

----------------------------------------------------------------------------
(* Bounds of the model *)

MaxConfKeys == 2      \* keys present in the persisted configuration
MaxArgvKeys == 2      \* recognised flags present on the command line
MaxRuns     == 2      \* consecutive invocations against one cache directory
MaxPlans    == 2      \* run plans the engine starts in one invocation
MaxEvents   == 2      \* stateChange events the engine emits in one invocation
MaxFiles    == 2      \* files a run plan resolves to

----------------------------------------------------------------------------
(* JavaScript values *)

Null == [null |-> TRUE]

\* process.exitCode while nothing has set it
NoCode == -1

Undefined == [t |-> "undefined", n |-> 0, d |-> 1]
True      == [t |-> "boolean", n |-> 1, d |-> 1]
False     == [t |-> "boolean", n |-> 0, d |-> 1]
NaN       == [t |-> "NaN", n |-> 0, d |-> 1]
Num(n, d) == [t |-> "number", n |-> n, d |-> d]
Str(i)    == [t |-> "string", n |-> i, d |-> 1]

\* ToBoolean
Truthy(v) ==
    CASE v.t = "boolean" -> v.n = 1
      [] v.t = "number"  -> v.n # 0
      [] v.t = "string"  -> v.n # 0
      [] OTHER           -> FALSE

\* Number.isInteger
NumberIsInteger(v) == v.t = "number" /\ v.n % v.d = 0

\* v < 0, for a value that passed Number.isInteger
LessThanZero(v) == v.t = "number" /\ v.n < 0

\* Reflect.has(obj, key)
ReflectHas(obj, key) == key \in DOMAIN obj

\* obj[key]
Get(obj, key) == IF key \in DOMAIN obj THEN obj[key] ELSE Undefined

\* obj[key] = value
Set(obj, key, value) ==
    [k \in DOMAIN obj \cup {key} |-> IF k = key THEN value ELSE obj[k]]

EmptyObject == [k \in {} |-> Undefined]

Range(s) == {s[i] : i \in DOMAIN s}

----------------------------------------------------------------------------
(* The option schema *)

\* Object.keys(FLAGS), in insertion order
FLAGS == <<"concurrency", "fail-fast", "match", "node-arguments", "serial",
           "tap", "timeout", "update-snapshots", "verbose", "watch">>

DefaultPort == 9229

\* MergeFlag with the precedence reversed: a persisted value is kept
MergeFlag_PersistedWins(acc, args, flag) ==
    IF ReflectHas(args, flag)
    THEN IF flag = "fail-fast"
         THEN (IF ReflectHas(acc, "failFast") THEN acc
               ELSE Set(acc, "failFast", args[flag]))
         ELSE IF flag = "update-snapshots"
         THEN (IF ReflectHas(acc, "updateSnapshots") THEN acc
               ELSE Set(acc, "updateSnapshots", args[flag]))
         ELSE IF flag # "node-arguments"
         THEN (IF ReflectHas(acc, flag) THEN acc ELSE Set(acc, flag, args[flag]))
         ELSE acc
    ELSE acc

\* one iteration of the merge loop (lines 164-172)
MergeFlag(acc, args, flag) ==
    IF ReflectHas(args, flag)
    THEN IF flag = "fail-fast" THEN Set(acc, "failFast", args[flag])
         ELSE IF flag = "update-snapshots" THEN Set(acc, "updateSnapshots", args[flag])
         ELSE IF flag # "node-arguments" THEN Set(acc, flag, args[flag])
         ELSE acc
    ELSE acc

RECURSIVE MergeLoop(_, _, _)
MergeLoop(acc, args, i) ==
    IF i > Len(FLAGS) THEN acc
    ELSE MergeLoop(MergeFlag(acc, args, FLAGS[i]), args, i + 1)

\* const combined = {...conf}; for (const flag of Object.keys(FLAGS)) ...
MergeFlags(c, args) == MergeLoop(c, args, 1)

----------------------------------------------------------------------------
(* Diagnostics *)

Msg(text) == [text |-> text, cause |-> ""]

MsgWatchTap    == Msg("The TAP reporter is not available when using watch mode.")
MsgWatchCi     == Msg("Watch mode is not available in CI, as it prevents AVA from terminating.")
MsgWatchDebug  == Msg("Watch mode is not available when debugging.")
MsgDebugTap    == Msg("The TAP reporter is not available when debugging.")
MsgDebugCi     == Msg("Debugging is not available in CI.")
MsgConcurrency == Msg("The --concurrency or -c flag must be provided with a nonnegative integer.")
MsgCompileEnhancements == Msg("Enhancement compilation must be configured in AVA's Babel options.")
MsgHelpers     == Msg("AVA no longer compiles helpers. Add exclusion patterns to the 'files' configuration and specify 'compileAsTests' in the Babel options instead.")
MsgSources     == Msg("'sources' has been removed. Use 'ignoredByWatcher' to provide glob patterns of files that the watcher should ignore.")
MsgRemoved     == Msg("Removed AVA cache files")
MsgTimeoutDisabled == Msg("The timeout option has been disabled to help with debugging.")
MsgExperiments == Msg("Experiments are enabled.")
MsgDebugFile   == Msg("Provide the path to the test file you wish to debug")
MsgUsage       == Msg("usage")

\* ConfErrorMessage without the parent cause
ConfErrorMessage_NoCause(e) == Msg(e.message)

\* the message of lines 179-183
ConfErrorMessage(e) ==
    IF e.parent # "" THEN [text |-> e.message, cause |-> e.parent]
    ELSE Msg(e.message)

\* the message of line 199
MsgRemoveFailed(cause) == [text |-> "Error removing AVA cache files", cause |-> cause]

----------------------------------------------------------------------------
(* The inputs of an invocation *)

\* the partial objects over the keys K, key k holding a value of V[k],
\* with at most max keys present
Objects(K, V, max) ==
    UNION { {o \in [D -> UNION {V[k] : k \in D}] : \A k \in D : o[k] \in V[k]} :
            D \in {S \in SUBSET K : Cardinality(S) <= max} }

ConfKeys == {"watch", "tap", "verbose", "concurrency", "match", "timeout",
             "compileEnhancements", "helpers", "sources", "nonSemVerExperiments"}

ConfValues(k) ==
    CASE k = "concurrency"         -> {Num(2, 1), Num(-1, 1), Num(3, 2)}
      [] k = "match"               -> {Str(1)}
      [] k = "timeout"             -> {Str(2)}
      [] k = "helpers"             -> {Str(3)}
      [] k = "sources"             -> {Str(4)}
      [] k = "compileEnhancements" -> {False}
      [] k = "nonSemVerExperiments" -> {Num(1, 1)}
      [] OTHER                     -> {True}

ArgvKeys == {"watch", "tap", "verbose", "concurrency", "match"}

ArgvValues(k) ==
    CASE k = "concurrency" -> {Num(0, 1), Num(-1, 1), Num(3, 2), NaN}
      [] k = "match"       -> {Str(0), Str(5)}
      [] k = "verbose"     -> {True}
      [] OTHER             -> {True, False}

\* what loadConfig() throws
ConfigErrors == {[message |-> "Error loading ava.config.js", parent |-> "SyntaxError"],
                 [message |-> "Conflicting configuration", parent |-> ""]}

ConfigFiles(K, V, max) ==
    {[error |-> Null, conf |-> c] : c \in Objects(K, V, max)}
    \cup {[error |-> e, conf |-> EmptyObject] : e \in ConfigErrors}

Patterns(command) ==
    CASE command = "debug" -> {<<"test.js">>, <<"a.js", "b.js">>}
      [] OTHER             -> {<<>>}

CommandLines(K, V, max) ==
    {[command |-> c, help |-> h, flags |-> f, pattern |-> p] :
        c \in {"run", "debug", "reset-cache"}, h \in BOOLEAN,
        f \in Objects(K, V, max), p \in {<<>>, <<"test.js">>, <<"a.js", "b.js">>}}

\* the cache directory: files directly in it, and a subdirectory
TopFiles == {"a.js.map", "b.js"}
SubDirs  == {"sub/"}
CacheEntries == TopFiles \cup SubDirs

\* the state of a process that has not run anything yet (lines 82-83, 91-92)
Fresh ==
    /\ pc = "loadConfig"
    /\ conf = EmptyObject
    /\ confError = Null
    /\ argv = EmptyObject
    /\ debug = Null
    /\ resetCache = FALSE
    /\ combined = EmptyObject
    /\ checks = <<>>
    /\ exitCode = NoCode
    /\ stderr = <<>>
    /\ stdout = <<>>
    /\ delState = "idle"
    /\ api = Null
    /\ reporter = "none"
    /\ isTTY = "unread"
    /\ watcher = FALSE
    /\ apiRunCalls = 0
    /\ plans = <<>>
    /\ emitted = 0
    /\ handled = <<>>
    /\ reporterCalls = <<>>
    /\ debugWithoutSpecificFile = FALSE
    /\ runStatus = Null

Init ==
    /\ cfgFile \in ConfigFiles(ConfKeys, [k \in ConfKeys |-> ConfValues(k)], MaxConfKeys)
    /\ cmdline \in {c \in CommandLines(ArgvKeys, [k \in ArgvKeys |-> ArgvValues(k)], MaxArgvKeys) :
                        c.pattern \in Patterns(c.command)}
    /\ isCi \in BOOLEAN
    /\ cacheFiles = CacheEntries
    /\ cacheBefore = cacheFiles
    /\ runs = <<>>
    /\ Fresh

----------------------------------------------------------------------------
(* exports.run *)

\* function exit(message): console.error, then process.exit(1)
exit(message) ==
    /\ stderr' = Append(stderr, message)
    /\ exitCode' = 1
    /\ pc' = "exited"

\* a fatal check failed: cs are the checks evaluated up to and including it
Fatal(cs, message) ==
    /\ checks' = checks \o cs
    /\ exit(message)

\* the checks cs were evaluated and passed
Pass(cs, next) ==
    /\ checks' = checks \o cs
    /\ pc' = next
    /\ UNCHANGED <<exitCode, stderr>>

\* lines 82-89
LoadConfig ==
    /\ pc = "loadConfig"
    /\ \/ /\ cfgFile.error = Null
          /\ conf' = cfgFile.conf
          /\ UNCHANGED confError
       \/ /\ cfgFile.error # Null
          /\ confError' = cfgFile.error
          /\ UNCHANGED conf
    /\ pc' = "parse"
    /\ UNCHANGED <<envVars, cacheFiles, argv, debug, resetCache, combined, checks,
                   exitCode, stderr, stdout, api, reporter, isTTY, watcher,
                   delState, cacheBefore, runs, runVars>>

\* lines 91-160: yargs parses the command line and runs the command's handler;
\* .help() makes --help print the usage and end the process with code 0
ParseArgs ==
    /\ pc = "parse"
    /\ \/ /\ cmdline.help
          /\ stdout' = Append(stdout, MsgUsage)
          /\ exitCode' = 0
          /\ pc' = "exited"
          /\ UNCHANGED <<argv, debug, resetCache>>
       \/ /\ ~cmdline.help
          /\ argv' = cmdline.flags
          /\ debug' = IF cmdline.command = "debug"
                      THEN [break |-> FALSE, files |-> cmdline.pattern, port |-> DefaultPort]
                      ELSE Null
          /\ resetCache' = (cmdline.command = "reset-cache")
          /\ pc' = "merge"
          /\ UNCHANGED <<stdout, exitCode>>
    /\ UNCHANGED <<envVars, cacheFiles, conf, confError, combined, checks, stderr,
                   api, reporter, isTTY, watcher, delState, cacheBefore, runs, runVars>>

\* Merge writing the flags into the persisted configuration itself
\* (combined = conf in place of the copy)
Merge_Aliases ==
    /\ pc = "merge"
    /\ combined' = MergeFlags(conf, argv)
    /\ conf' = combined'
    /\ pc' = "confError"
    /\ UNCHANGED <<envVars, cacheFiles, confError, argv, debug, resetCache,
                   checks, exitCode, stderr, stdout, api, reporter, isTTY, watcher,
                   delState, cacheBefore, runs, runVars>>

\* lines 162-173
Merge ==
    /\ pc = "merge"
    /\ combined' = MergeFlags(conf, argv)
    /\ pc' = "confError"
    /\ UNCHANGED <<envVars, cacheFiles, conf, confError, argv, debug, resetCache,
                   checks, exitCode, stderr, stdout, api, reporter, isTTY, watcher,
                   delState, cacheBefore, runs, runVars>>

\* ConfErrorCheck letting reset-cache through with a broken configuration
ConfErrorCheck_SkipsResetCache ==
    /\ pc = "confError"
    /\ IF confError # Null /\ ~resetCache
       THEN Fatal(<<"confError">>, ConfErrorMessage(confError))
       ELSE Pass(<<"confError">>, "resetCache")
    /\ UNCHANGED <<envVars, cacheFiles, conf, confError, argv, debug, resetCache,
                   combined, stdout, api, reporter, isTTY, watcher, delState,
                   cacheBefore, runs, runVars>>

\* lines 178-184
ConfErrorCheck ==
    /\ pc = "confError"
    /\ IF confError # Null
       THEN Fatal(<<"confError">>, ConfErrorMessage(confError))
       ELSE Pass(<<"confError">>, "resetCache")
    /\ UNCHANGED <<envVars, cacheFiles, conf, confError, argv, debug, resetCache,
                   combined, stdout, api, reporter, isTTY, watcher, delState,
                   cacheBefore, runs, runVars>>

\* lines 188-195: the reset-cache branch calls del('*', {cwd: cacheDir, nodir: true})
\* and awaits it
ResetCacheBranch ==
    /\ pc = "resetCache"
    /\ IF resetCache
       THEN /\ delState' = "pending"
            /\ pc' = "del"
       ELSE /\ pc' = "watchGuards"
            /\ UNCHANGED delState
    /\ UNCHANGED <<envVars, cacheFiles, conf, confError, argv, debug, resetCache,
                   combined, checks, exitCode, stderr, stdout, api, reporter, isTTY,
                   watcher, cacheBefore, runs, runVars>>

\* what del('*', {nodir: true}) matches: the files directly in the directory
Matched(entries) == entries \cap TopFiles

\* DelResolved without process.exit(0): run() goes on to the mode guards
DelResolved_NoExit ==
    /\ pc = "del"
    /\ delState = "pending"
    /\ delState' = "resolved"
    /\ cacheFiles' = cacheFiles \ Matched(cacheFiles)
    /\ stderr' = Append(stderr, MsgRemoved)
    /\ pc' = "watchGuards"
    /\ UNCHANGED <<envVars, conf, confError, argv, debug, resetCache, combined,
                   checks, exitCode, stdout, api, reporter, isTTY, watcher,
                   cacheBefore, runs, runVars>>

\* DelResolved reporting success after removing one matched file only
DelResolved_RemovesOne ==
    /\ pc = "del"
    /\ delState = "pending"
    /\ delState' = "resolved"
    /\ \/ /\ Matched(cacheFiles) = {}
          /\ UNCHANGED cacheFiles
       \/ \E f \in Matched(cacheFiles) : cacheFiles' = cacheFiles \ {f}
    /\ stderr' = Append(stderr, MsgRemoved)
    /\ exitCode' = 0
    /\ pc' = "exited"
    /\ UNCHANGED <<envVars, conf, confError, argv, debug, resetCache, combined,
                   checks, stdout, api, reporter, isTTY, watcher, cacheBefore, runs, runVars>>

\* lines 196-197: del resolved, having removed every matched file
DelResolved ==
    /\ pc = "del"
    /\ delState = "pending"
    /\ delState' = "resolved"
    /\ cacheFiles' = cacheFiles \ Matched(cacheFiles)
    /\ stderr' = Append(stderr, MsgRemoved)
    /\ exitCode' = 0
    /\ pc' = "exited"
    /\ UNCHANGED <<envVars, conf, confError, argv, debug, resetCache, combined,
                   checks, stdout, api, reporter, isTTY, watcher, cacheBefore, runs, runVars>>

\* lines 198-200: del rejected: removing one of the matched files failed, after
\* some of the others were removed
DelRejected ==
    /\ pc = "del"
    /\ delState = "pending"
    /\ \E removed \in SUBSET Matched(cacheFiles) :
          /\ removed # Matched(cacheFiles)
          /\ cacheFiles' = cacheFiles \ removed
    /\ delState' = "rejected"
    /\ exit(MsgRemoveFailed("EPERM"))
    /\ UNCHANGED <<envVars, conf, confError, argv, debug, resetCache, combined,
                   checks, stdout, api, reporter, isTTY, watcher, cacheBefore, runs, runVars>>

\* argv.tap && !conf.tap (lines 206 and 220)
TapFromFlagOnly == Truthy(Get(argv, "tap")) /\ ~Truthy(Get(conf, "tap"))

\* WatchGuards testing for CI before it tests for TAP
WatchGuards_CiFirst ==
    /\ pc = "watchGuards"
    /\ IF Truthy(Get(argv, "watch"))
       THEN IF isCi
            THEN Fatal(<<"watchCi">>, MsgWatchCi)
            ELSE IF TapFromFlagOnly
            THEN Fatal(<<"watchCi", "watchTap">>, MsgWatchTap)
            ELSE IF debug # Null
            THEN Fatal(<<"watchCi", "watchTap", "watchDebug">>, MsgWatchDebug)
            ELSE Pass(<<"watchCi", "watchTap", "watchDebug">>, "debugGuards")
       ELSE Pass(<<>>, "debugGuards")
    /\ UNCHANGED <<envVars, cacheFiles, conf, confError, argv, debug, resetCache,
                   combined, stdout, api, reporter, isTTY, watcher, delState,
                   cacheBefore, runs, runVars>>

\* lines 205-217
WatchGuards ==
    /\ pc = "watchGuards"
    /\ IF Truthy(Get(argv, "watch"))
       THEN IF TapFromFlagOnly
            THEN Fatal(<<"watchTap">>, MsgWatchTap)
            ELSE IF isCi
            THEN Fatal(<<"watchTap", "watchCi">>, MsgWatchCi)
            ELSE IF debug # Null
            THEN Fatal(<<"watchTap", "watchCi", "watchDebug">>, MsgWatchDebug)
            ELSE Pass(<<"watchTap", "watchCi", "watchDebug">>, "debugGuards")
       ELSE Pass(<<>>, "debugGuards")
    /\ UNCHANGED <<envVars, cacheFiles, conf, confError, argv, debug, resetCache,
                   combined, stdout, api, reporter, isTTY, watcher, delState,
                   cacheBefore, runs, runVars>>

\* lines 219-231
DebugGuards ==
    /\ pc = "debugGuards"
    /\ IF debug # Null
       THEN IF TapFromFlagOnly
            THEN Fatal(<<"debugTap">>, MsgDebugTap) /\ UNCHANGED stdout
            ELSE IF isCi
            THEN Fatal(<<"debugTap", "debugCi">>, MsgDebugCi) /\ UNCHANGED stdout
            ELSE /\ Pass(<<"debugTap", "debugCi">>, "concurrency")
                 /\ stdout' = IF Truthy(Get(combined, "timeout"))
                              THEN Append(stdout, MsgTimeoutDisabled)
                              ELSE stdout
       ELSE Pass(<<>>, "concurrency") /\ UNCHANGED stdout
    /\ UNCHANGED <<envVars, cacheFiles, conf, confError, argv, debug, resetCache,
                   combined, api, reporter, isTTY, watcher, delState, cacheBefore,
                   runs, runVars>>

\* ConcurrencyInvalid with <= 0 for < 0
ConcurrencyInvalid_RejectsZero(c) ==
    /\ ReflectHas(c, "concurrency")
    /\ \/ ~NumberIsInteger(c["concurrency"])
       \/ LessThanZero(c["concurrency"])
       \/ c["concurrency"].n = 0

\* the condition of line 233
ConcurrencyInvalid(c) ==
    /\ ReflectHas(c, "concurrency")
    /\ (~NumberIsInteger(c["concurrency"]) \/ LessThanZero(c["concurrency"]))

\* Object.keys(experiments).length > 0, experiments being conf.nonSemVerExperiments
\* (its value here is the number of experiments that are switched on)
HasExperiments == Truthy(Get(conf, "nonSemVerExperiments"))

\* lines 233-239
ConcurrencyCheck ==
    /\ pc = "concurrency"
    /\ IF ConcurrencyInvalid(combined)
       THEN Fatal(<<"concurrency">>, MsgConcurrency) /\ UNCHANGED stdout
       ELSE /\ Pass(<<"concurrency">>, "legacy")
            /\ stdout' = IF ~Truthy(Get(combined, "tap")) /\ HasExperiments
                         THEN Append(stdout, MsgExperiments)
                         ELSE stdout
    /\ UNCHANGED <<envVars, cacheFiles, conf, confError, argv, debug, resetCache,
                   combined, api, reporter, isTTY, watcher, delState, cacheBefore,
                   runs, runVars>>

\* LegacyChecks without the check of 'sources'
LegacyChecks_NoSources ==
    /\ pc = "legacy"
    /\ IF ReflectHas(conf, "compileEnhancements")
       THEN Fatal(<<"compileEnhancements">>, MsgCompileEnhancements)
       ELSE IF ReflectHas(conf, "helpers")
       THEN Fatal(<<"compileEnhancements", "helpers">>, MsgHelpers)
       ELSE Pass(<<"compileEnhancements", "helpers">>, "prepare")
    /\ UNCHANGED <<envVars, cacheFiles, conf, confError, argv, debug, resetCache,
                   combined, stdout, api, reporter, isTTY, watcher, delState,
                   cacheBefore, runs, runVars>>

\* lines 241-251
LegacyChecks ==
    /\ pc = "legacy"
    /\ IF ReflectHas(conf, "compileEnhancements")
       THEN Fatal(<<"compileEnhancements">>, MsgCompileEnhancements)
       ELSE IF ReflectHas(conf, "helpers")
       THEN Fatal(<<"compileEnhancements", "helpers">>, MsgHelpers)
       ELSE IF ReflectHas(conf, "sources")
       THEN Fatal(<<"compileEnhancements", "helpers", "sources">>, MsgSources)
       ELSE Pass(<<"compileEnhancements", "helpers", "sources">>, "prepare")
    /\ UNCHANGED <<envVars, cacheFiles, conf, confError, argv, debug, resetCache,
                   combined, stdout, api, reporter, isTTY, watcher, delState,
                   cacheBefore, runs, runVars>>

\* lines 253-346: providers, environment variables, extensions, globs and node
\* arguments are normalised by helpers that either return or throw; a throw is
\* turned into exit(error.message)
PrepareOk ==
    /\ pc = "prepare"
    /\ pc' = "api"
    /\ UNCHANGED <<envVars, cacheFiles, conf, confError, argv, debug, resetCache,
                   combined, checks, exitCode, stderr, stdout, api, reporter, isTTY,
                   watcher, delState, cacheBefore, runs, runVars>>

\* PrepareFailed with an exit that only sets the exit code: run() goes on
PrepareFailed_Continues ==
    /\ pc = "prepare"
    /\ stderr' = Append(stderr, Msg("error.message"))
    /\ exitCode' = 1
    /\ pc' = "api"
    /\ UNCHANGED <<envVars, cacheFiles, conf, confError, argv, debug, resetCache,
                   combined, checks, stdout, api, reporter, isTTY, watcher, delState,
                   cacheBefore, runs, runVars>>

\* lines 265-272: reading package.json failed with something else than ENOENT;
\* the error is thrown again and the promise of run() is rejected
ReadPkgThrows ==
    /\ pc = "prepare"
    /\ pc' = "rejected"
    /\ UNCHANGED <<envVars, cacheFiles, conf, confError, argv, debug, resetCache,
                   combined, checks, exitCode, stderr, stdout, api, reporter, isTTY,
                   watcher, delState, cacheBefore, runs, runVars>>

\* lines 282-339: a provider, the environment variables, the extensions, the
\* globs or the node arguments were refused
PrepareFailed ==
    /\ pc = "prepare"
    /\ exit(Msg("error.message"))
    /\ UNCHANGED <<envVars, cacheFiles, conf, confError, argv, debug, resetCache,
                   combined, checks, stdout, api, reporter, isTTY, watcher, delState,
                   cacheBefore, runs, runVars>>

\* a || b
OrElse(a, b) == IF Truthy(a) THEN a ELSE b

\* MatchList without the special case of the empty string
MatchList_KeepsEmpty(v) ==
    IF v.t = "undefined" THEN <<>>
    ELSE <<v>>

\* combined.match === '' ? [] : arrify(combined.match)
MatchList(v) ==
    IF v = Str(0) THEN <<>>
    ELSE IF v.t = "undefined" THEN <<>>
    ELSE <<v>>

\* ConstructApi with the cache enabled only when the configuration asks for it
ConstructApi_CacheOptIn ==
    /\ pc = "api"
    /\ api' = [cacheEnabled          |-> Truthy(Get(combined, "cache")),
               concurrency           |-> OrElse(Get(combined, "concurrency"), Num(0, 1)),
               debug                 |-> debug,
               failFast              |-> Get(combined, "failFast"),
               failWithoutAssertions |-> Get(combined, "failWithoutAssertions") # False,
               match                 |-> MatchList(Get(combined, "match")),
               serial                |-> Get(combined, "serial"),
               timeout               |-> OrElse(Get(combined, "timeout"), Str(10)),
               updateSnapshots       |-> Get(combined, "updateSnapshots")]
    /\ pc' = "reporter"
    /\ UNCHANGED <<envVars, cacheFiles, conf, confError, argv, debug, resetCache,
                   combined, checks, exitCode, stderr, stdout, reporter, isTTY,
                   watcher, delState, cacheBefore, runs, runVars>>

\* lines 343-372
ConstructApi ==
    /\ pc = "api"
    /\ api' = [cacheEnabled          |-> Get(combined, "cache") # False,
               concurrency           |-> OrElse(Get(combined, "concurrency"), Num(0, 1)),
               debug                 |-> debug,
               failFast              |-> Get(combined, "failFast"),
               failWithoutAssertions |-> Get(combined, "failWithoutAssertions") # False,
               match                 |-> MatchList(Get(combined, "match")),
               serial                |-> Get(combined, "serial"),
               timeout               |-> OrElse(Get(combined, "timeout"), Str(10)),
               updateSnapshots       |-> Get(combined, "updateSnapshots")]
    /\ pc' = "reporter"
    /\ UNCHANGED <<envVars, cacheFiles, conf, confError, argv, debug, resetCache,
                   combined, checks, exitCode, stderr, stdout, reporter, isTTY,
                   watcher, delState, cacheBefore, runs, runVars>>

\* SelectReporter choosing TAP whenever tap is set, also when watching
SelectReporter_TapWhileWatching ==
    /\ pc = "reporter"
    /\ \E tty \in BOOLEAN :
          /\ isTTY' = IF tty THEN "tty" ELSE "notty"
          /\ reporter' =
                IF Truthy(Get(combined, "tap")) /\ debug = Null
                THEN "tap"
                ELSE IF debug # Null \/ Truthy(Get(combined, "verbose")) \/ isCi \/ ~tty
                THEN "verbose"
                ELSE "mini"
    /\ pc' = "dispatch"
    /\ UNCHANGED <<envVars, cacheFiles, conf, confError, argv, debug, resetCache,
                   combined, checks, exitCode, stderr, stdout, api, watcher,
                   delState, cacheBefore, runs, runVars>>

\* lines 374-395
SelectReporter ==
    /\ pc = "reporter"
    /\ \E tty \in BOOLEAN :
          /\ isTTY' = IF tty THEN "tty" ELSE "notty"
          /\ reporter' =
                IF Truthy(Get(combined, "tap")) /\ ~Truthy(Get(combined, "watch"))
                   /\ debug = Null
                THEN "tap"
                ELSE IF debug # Null \/ Truthy(Get(combined, "verbose")) \/ isCi \/ ~tty
                THEN "verbose"
                ELSE "mini"
    /\ pc' = "dispatch"
    /\ UNCHANGED <<envVars, cacheFiles, conf, confError, argv, debug, resetCache,
                   combined, checks, exitCode, stderr, stdout, api, watcher,
                   delState, cacheBefore, runs, runVars>>

\* Dispatch without the else: after constructing the Watcher run() goes on to
\* call api.run itself
Dispatch_RunsWhileWatching ==
    /\ pc = "dispatch"
    /\ watcher' = Truthy(Get(combined, "watch"))
    /\ pc' = "running"
    /\ apiRunCalls' = apiRunCalls + 1
    /\ UNCHANGED <<envVars, cacheFiles, conf, confError, argv, debug, resetCache,
                   combined, checks, exitCode, stderr, stdout, api, reporter, isTTY,
                   delState, cacheBefore, runs, plans, emitted, handled,
                   reporterCalls, debugWithoutSpecificFile, runStatus>>

\* lines 397-426: subscribe to the engine's 'run' event; then construct the
\* Watcher, or subscribe the debug handler, call api.run and await it
Dispatch ==
    /\ pc = "dispatch"
    /\ IF Truthy(Get(combined, "watch"))
       THEN watcher' = TRUE /\ pc' = "watching" /\ UNCHANGED apiRunCalls
       ELSE pc' = "running" /\ apiRunCalls' = apiRunCalls + 1 /\ UNCHANGED watcher
    /\ UNCHANGED <<envVars, cacheFiles, conf, confError, argv, debug, resetCache,
                   combined, checks, exitCode, stderr, stdout, api, reporter, isTTY,
                   delState, cacheBefore, runs, plans, emitted, handled,
                   reporterCalls, debugWithoutSpecificFile, runStatus>>

----------------------------------------------------------------------------
(* The engine at work: run plans, their status streams, the end of api.run  *)

\* what the steps of this part leave alone
setupVars == <<envVars, cacheFiles, conf, confError, argv, debug, resetCache,
               combined, checks, stdout, api, reporter, isTTY, watcher, delState,
               cacheBefore, runs>>

\* the calls made on the reporter
StartRun(i) == [call |-> "startRun", plan |-> i]
EndRun      == [call |-> "endRun", plan |-> 0]

\* the stateChange event types: 'interrupt' and, standing for all the others,
\* 'other'
EventTypes == {"interrupt", "other"}

\* what api.run() resolves with: the exit code it suggests when match patterns
\* were supplied and when they were not
RunStatuses == [matching : {0, 1}, notMatching : {0, 1}]

\* runStatus.suggestExitCode({matching})
suggestExitCode(status, matching) ==
    IF matching THEN status.matching ELSE status.notMatching

\* the numbers of files a plan resolves to: none, one, several
FileCounts == {0, 1, MaxFiles}

\* the engine starts a run plan (for the api.run() of line 426, or for the
\* Watcher, which calls api.run itself, one run after the other); the plan is a
\* debug plan when the engine was given a debug descriptor, and its status
\* emitter exists from now on
StartPlan ==
    /\ pc \in {"running", "watching"}
    /\ Len(plans) < MaxPlans
    /\ \A i \in DOMAIN plans : plans[i].announced
    /\ \E n \in FileCounts :
          plans' = Append(plans, [debug |-> api.debug # Null, files |-> n,
                                  announced |-> FALSE, listeners |-> 0])
    /\ UNCHANGED <<setupVars, pc, exitCode, stderr, apiRunCalls, emitted, handled,
                   reporterCalls, debugWithoutSpecificFile, runStatus>>

\* EmitRun subscribing to the plan's status stream without calling startRun
EmitRun_NoStartRun(i) ==
    /\ pc \in {"running", "watching"}
    /\ ~plans[i].announced
    /\ plans' = [plans EXCEPT ![i].announced = TRUE, ![i].listeners = @ + 1]
    /\ debugWithoutSpecificFile' =
          IF pc = "running" /\ plans[i].debug /\ plans[i].files # 1
          THEN TRUE
          ELSE debugWithoutSpecificFile
    /\ UNCHANGED <<setupVars, pc, exitCode, stderr, apiRunCalls, emitted, handled,
                   reporterCalls, runStatus>>

\* lines 397-406 and 419-424: the engine emits 'run' with plan i, and the
\* handlers run one after the other: startRun, the stateChange listener, and on
\* the one-shot path the handler that notes a debug plan without a single file
EmitRun(i) ==
    /\ pc \in {"running", "watching"}
    /\ ~plans[i].announced
    /\ reporterCalls' = Append(reporterCalls, StartRun(i))
    /\ plans' = [plans EXCEPT ![i].announced = TRUE, ![i].listeners = @ + 1]
    /\ debugWithoutSpecificFile' =
          IF pc = "running" /\ plans[i].debug /\ plans[i].files # 1
          THEN TRUE
          ELSE debugWithoutSpecificFile
    /\ UNCHANGED <<setupVars, pc, exitCode, stderr, apiRunCalls, emitted, handled,
                   runStatus>>

\* EmitStateChange ending the process on an event of any type
EmitStateChange_AnyTypeEnds(i, type) ==
    /\ pc \in {"running", "watching", "returned", "rejected"}
    /\ emitted < MaxEvents
    /\ emitted' = emitted + 1
    /\ IF plans[i].listeners = 0
       THEN UNCHANGED <<handled, reporterCalls, exitCode, pc>>
       ELSE /\ handled' = Append(handled, [plan |-> i, type |-> type])
            /\ reporterCalls' = Append(reporterCalls, EndRun)
            /\ exitCode' = 1
            /\ pc' = "exited"
    /\ UNCHANGED <<setupVars, stderr, apiRunCalls, plans, debugWithoutSpecificFile,
                   runStatus>>

\* lines 400-405: plan i's status emits a stateChange event. Without a listener
\* (the plan's 'run' event is still to come) nobody hears it
EmitStateChange(i, type) ==
    /\ pc \in {"running", "watching", "returned", "rejected"}
    /\ emitted < MaxEvents
    /\ emitted' = emitted + 1
    /\ IF plans[i].listeners = 0
       THEN UNCHANGED <<handled, reporterCalls, exitCode, pc>>
       ELSE /\ handled' = Append(handled, [plan |-> i, type |-> type])
            /\ IF type = "interrupt"
               THEN /\ reporterCalls' = Append(reporterCalls, EndRun)
                    /\ exitCode' = 1
                    /\ pc' = "exited"
               ELSE UNCHANGED <<reporterCalls, exitCode, pc>>
    /\ UNCHANGED <<setupVars, stderr, apiRunCalls, plans, debugWithoutSpecificFile,
                   runStatus>>

\* RunCompleted taking the exit code from the result whatever the plans were
RunCompleted_IgnoresDebug ==
    /\ pc = "running"
    /\ \E status \in RunStatuses :
          /\ runStatus' = status
          /\ exitCode' = suggestExitCode(status, Len(api.match) > 0)
          /\ reporterCalls' = Append(reporterCalls, EndRun)
          /\ pc' = "returned"
          /\ UNCHANGED stderr
    /\ UNCHANGED <<setupVars, apiRunCalls, plans, emitted, handled,
                   debugWithoutSpecificFile>>

\* lines 426-434: api.run() resolved
RunCompleted ==
    /\ pc = "running"
    /\ \E status \in RunStatuses :
          /\ runStatus' = status
          /\ IF debugWithoutSpecificFile
             THEN /\ exit(MsgDebugFile)
                  /\ UNCHANGED reporterCalls
             ELSE /\ exitCode' = suggestExitCode(status, Len(api.match) > 0)
                  /\ reporterCalls' = Append(reporterCalls, EndRun)
                  /\ pc' = "returned"
                  /\ UNCHANGED stderr
    /\ UNCHANGED <<setupVars, apiRunCalls, plans, emitted, handled,
                   debugWithoutSpecificFile>>

\* line 426: api.run() rejected, and with it the promise of run()
RunRejected ==
    /\ pc = "running"
    /\ pc' = "rejected"
    /\ UNCHANGED <<setupVars, exitCode, stderr, runVars>>

Next ==
    \/ LoadConfig
    \/ ParseArgs
    \/ Merge
    \/ ConfErrorCheck
    \/ ResetCacheBranch
    \/ DelResolved
    \/ DelRejected
    \/ WatchGuards
    \/ DebugGuards
    \/ ConcurrencyCheck
    \/ LegacyChecks
    \/ PrepareOk
    \/ ReadPkgThrows
    \/ PrepareFailed
    \/ ConstructApi
    \/ SelectReporter
    \/ Dispatch

Spec == Init /\ [][Next]_vars

----------------------------------------------------------------------------
(* The merge on its own: every recognised flag, and every field the merge    *)
(* can write, with persisted values that differ from the command line's     *)

MergeConfKeys == Range(FLAGS) \cup {"failFast", "updateSnapshots", "nodeArguments"}

MergeConfValues(k) == {Str(1)}

MergeArgvValues(k) == {Str(5)}

MergeInit ==
    /\ cfgFile \in ConfigFiles(MergeConfKeys, [k \in MergeConfKeys |-> MergeConfValues(k)], MaxConfKeys)
    /\ cmdline \in {c \in CommandLines(Range(FLAGS), [k \in Range(FLAGS) |-> MergeArgvValues(k)], MaxArgvKeys) :
                        c.command = "run" /\ c.pattern = <<>>}
    /\ isCi = FALSE
    /\ cacheFiles = CacheEntries
    /\ cacheBefore = cacheFiles
    /\ runs = <<>>
    /\ Fresh

MergeNext ==
    \/ LoadConfig
    \/ ParseArgs
    \/ Merge

MergeSpec == MergeInit /\ [][MergeNext]_vars

----------------------------------------------------------------------------
(* reset-cache, run again and again against one cache directory *)

ResetInit ==
    /\ cfgFile \in ConfigFiles({"watch", "helpers"}, [k \in ConfKeys |-> ConfValues(k)], MaxConfKeys)
    /\ cmdline \in {c \in CommandLines({"watch", "tap"}, [k \in ArgvKeys |-> ArgvValues(k)], MaxArgvKeys) :
                        c.command = "reset-cache" /\ c.pattern = <<>>}
    /\ isCi = FALSE
    /\ cacheFiles \in SUBSET CacheEntries
    /\ cacheBefore = cacheFiles
    /\ runs = <<>>
    /\ Fresh

\* the invocation that just ended
ThisRun == [code |-> exitCode, before |-> cacheBefore, after |-> cacheFiles]

\* the process has ended; the same command is run once more
Again ==
    /\ pc = "exited"
    /\ Len(runs) + 1 < MaxRuns
    /\ runs' = Append(runs, ThisRun)
    /\ cacheBefore' = cacheFiles
    /\ pc' = "loadConfig"
    /\ conf' = EmptyObject
    /\ confError' = Null
    /\ argv' = EmptyObject
    /\ debug' = Null
    /\ resetCache' = FALSE
    /\ combined' = EmptyObject
    /\ checks' = <<>>
    /\ exitCode' = NoCode
    /\ stderr' = <<>>
    /\ stdout' = <<>>
    /\ delState' = "idle"
    /\ api' = Null
    /\ reporter' = "none"
    /\ isTTY' = "unread"
    /\ watcher' = FALSE
    /\ UNCHANGED <<envVars, cacheFiles, runVars>>

ResetNext ==
    \/ LoadConfig
    \/ ParseArgs
    \/ Merge
    \/ ConfErrorCheck
    \/ ResetCacheBranch
    \/ DelResolved
    \/ DelRejected
    \/ Again

ResetSpec == ResetInit /\ [][ResetNext]_vars

----------------------------------------------------------------------------
(* run() together with the engine's events, for the configurations that     *)
(* decide the mode (watch), the match patterns and the debug descriptor     *)

RunConfKeys == {"watch", "match"}

RunArgvKeys == {"watch", "match"}

RunInit ==
    /\ cfgFile \in ConfigFiles(RunConfKeys, [k \in ConfKeys |-> ConfValues(k)], 1)
    /\ cmdline \in {c \in CommandLines(RunArgvKeys, [k \in ArgvKeys |-> ArgvValues(k)], 1) :
                        c.pattern \in Patterns(c.command)}
    /\ isCi = FALSE
    /\ cacheFiles = CacheEntries
    /\ cacheBefore = cacheFiles
    /\ runs = <<>>
    /\ Fresh

RunNext ==
    \/ Next
    \/ StartPlan
    \/ \E i \in DOMAIN plans : EmitRun(i)
    \/ \E i \in DOMAIN plans, type \in EventTypes : EmitStateChange(i, type)
    \/ RunCompleted
    \/ RunRejected

RunSpec == RunInit /\ [][RunNext]_vars

----------------------------------------------------------------------------
(* The same, with what the scheduling gives: run() is sequential code, so    *)
(* its next step is taken whenever there is one (the awaited cache deletion *)
(* settles); and the awaited api.run() settles, one way or the other. The   *)
(* engine owes no plan and no event.                                        *)

EngineSettles == RunCompleted \/ RunRejected

LiveSpec == RunSpec /\ WF_vars(Next) /\ WF_vars(EngineSettles)

----------------------------------------------------------------------------
(* Vocabulary of the properties *)

\* run() has got past the merge (--help ends the process while parsing)
Merged == pc \notin {"loadConfig", "parse", "merge"} /\ ~cmdline.help

\* the process has ended
Exited == pc = "exited"

\* watch is enabled, by the flag or by the persisted configuration
WatchEnabled == Merged /\ Truthy(Get(combined, "watch"))

\* the execution engine exists
EngineConstructed == api # Null

\* the order in which run() evaluates its fatal checks (lines 178-251)
CheckOrder ==
    <<"confError", "watchTap", "watchCi", "watchDebug", "debugTap", "debugCi",
      "concurrency", "compileEnhancements", "helpers", "sources">>

\* the condition under which each check ends the process, over the invocation's
\* inputs: the configuration file, the command line and the environment
CheckViolated(check) ==
    LET fileConf == IF cfgFile.error = Null THEN cfgFile.conf ELSE EmptyObject
        flags    == cmdline.flags
        tapFlag  == Truthy(Get(flags, "tap")) /\ ~Truthy(Get(fileConf, "tap"))
        debugging == cmdline.command = "debug"
    IN  CASE check = "confError"  -> cfgFile.error # Null
          [] check = "watchTap"   -> Truthy(Get(flags, "watch")) /\ tapFlag
          [] check = "watchCi"    -> Truthy(Get(flags, "watch")) /\ isCi
          [] check = "watchDebug" -> Truthy(Get(flags, "watch")) /\ debugging
          [] check = "debugTap"   -> debugging /\ tapFlag
          [] check = "debugCi"    -> debugging /\ isCi
          [] check = "concurrency" ->
                LET c == IF "concurrency" \in DOMAIN flags
                         THEN flags["concurrency"]
                         ELSE Get(fileConf, "concurrency")
                IN  /\ c # Undefined
                    /\ (~NumberIsInteger(c) \/ LessThanZero(c))
          [] check = "compileEnhancements" -> ReflectHas(fileConf, "compileEnhancements")
          [] check = "helpers"    -> ReflectHas(fileConf, "helpers")
          [] check = "sources"    -> ReflectHas(fileConf, "sources")

\* the message each check ends the process with
CheckMessage(check) ==
    CASE check = "confError"  -> ConfErrorMessage(cfgFile.error)
      [] check = "watchTap"   -> MsgWatchTap
      [] check = "watchCi"    -> MsgWatchCi
      [] check = "watchDebug" -> MsgWatchDebug
      [] check = "debugTap"   -> MsgDebugTap
      [] check = "debugCi"    -> MsgDebugCi
      [] check = "concurrency" -> MsgConcurrency
      [] check = "compileEnhancements" -> MsgCompileEnhancements
      [] check = "helpers"    -> MsgHelpers
      [] check = "sources"    -> MsgSources

LegacyKeys == <<"compileEnhancements", "helpers", "sources">>

LegacyMessage(k) ==
    CASE k = "compileEnhancements" -> MsgCompileEnhancements
      [] k = "helpers"             -> MsgHelpers
      [] k = "sources"             -> MsgSources

----------------------------------------------------------------------------
(* C1: watch mode and debug mode are mutually exclusive. No Watcher exists   *)
(* while the debug descriptor is non-null, and an invocation of the debug   *)
(* command with watch enabled (by the flag or by the persisted              *)
(* configuration) constructs neither the engine nor a Watcher and, when it  *)
(* ends, ends with exit code 1.                                             *)
C1_WatchDebugExclusive ==
    /\ ~(watcher /\ debug # Null)
    /\ (debug # Null /\ WatchEnabled) =>
          /\ ~EngineConstructed
          /\ ~watcher
          /\ pc \notin {"watching", "running"}
          /\ (Exited => exitCode = 1)

----------------------------------------------------------------------------
(* C2, as stated: a reset-cache invocation whose configuration failed to     *)
(* load goes on to attempt the cache deletion, and ends with exit code 0    *)
(* when the deletion succeeds.                                              *)
C2_ResetCacheSurvivesConfigError ==
    (Exited /\ cmdline.command = "reset-cache" /\ ~cmdline.help
        /\ cfgFile.error # Null) =>
          /\ delState # "idle"
          /\ (delState = "resolved" => exitCode = 0)

(* C2, amended: a failed configuration load is captured and resolution goes  *)
(* on with an empty configuration through argument parsing, the help        *)
(* short-circuit (exit code 0) and the merge, whose result then holds only  *)
(* what the command line gave; but a reset-cache invocation whose           *)
(* configuration failed to load never attempts the cache deletion: it ends  *)
(* with exit code 1 and the load error's message, the cache untouched.      *)
C2_ConfigErrorDeferred ==
    cfgFile.error # Null =>
      /\ conf = EmptyObject
      /\ pc # "loadConfig" => confError = cfgFile.error
      /\ (Exited /\ cmdline.help) => (exitCode = 0 /\ stderr = <<>>)
      /\ Merged => DOMAIN combined = DOMAIN cmdline.flags
      /\ cmdline.command = "reset-cache" =>
            /\ delState = "idle"
            /\ cacheFiles = cacheBefore
            /\ (Exited /\ ~cmdline.help) =>
                  /\ exitCode = 1
                  /\ Len(stderr) = 1
                  /\ stderr[1].text = cfgFile.error.message

C2_Witness ==
    /\ Exited
    /\ resetCache
    /\ confError # Null
    /\ exitCode = 1
    /\ delState = "idle"

----------------------------------------------------------------------------
(* C3: once a configuration-load error was captured and parsing did not end  *)
(* the process on --help, run() gets no further than the confError check:   *)
(* the process ends with exit code 1 and exactly the error's message with   *)
(* its parent cause (when it has one); no other check was evaluated, no     *)
(* deletion was started and neither engine, reporter nor Watcher exists.    *)
C3_ConfErrorFatalFirst ==
    (confError # Null /\ ~cmdline.help) =>
      /\ pc \in {"parse", "merge", "confError", "exited"}
      /\ Range(checks) \subseteq {"confError"}
      /\ delState = "idle"
      /\ cacheFiles = cacheBefore
      /\ ~EngineConstructed
      /\ reporter = "none"
      /\ ~watcher
      /\ Exited =>
            /\ exitCode = 1
            /\ checks = <<"confError">>
            /\ stderr = <<[text |-> confError.message, cause |-> confError.parent]>>

C3_Witness ==
    /\ Exited
    /\ confError # Null
    /\ confError.parent # ""
    /\ exitCode = 1
    /\ stderr = <<[text |-> confError.message, cause |-> confError.parent]>>
    /\ Truthy(Get(argv, "watch"))

----------------------------------------------------------------------------
(* C4: merge precedence. After the merge, for every recognised flag other    *)
(* than node-arguments the merged field of the flag (failFast for           *)
(* fail-fast, updateSnapshots for update-snapshots, the flag's name         *)
(* otherwise) holds the command-line value when the flag is on the command  *)
(* line and the persisted value when it is not; every other key, and so     *)
(* every key when the command line holds node-arguments alone, is as        *)
(* persisted.                                                               *)
C4_MergedField(flag) ==
    CASE flag = "fail-fast"        -> "failFast"
      [] flag = "update-snapshots" -> "updateSnapshots"
      [] OTHER                     -> flag

C4_MergePrecedence ==
    Merged =>
      LET given   == DOMAIN argv \ {"node-arguments"}
          written == {C4_MergedField(f) : f \in given}
      IN  /\ \A flag \in Range(FLAGS) \ {"node-arguments"} :
                Get(combined, C4_MergedField(flag)) =
                    IF flag \in DOMAIN argv THEN argv[flag]
                    ELSE Get(conf, C4_MergedField(flag))
          /\ DOMAIN combined = DOMAIN conf \cup written
          /\ \A k \in DOMAIN combined \ written : combined[k] = conf[k]

C4_Witness ==
    /\ Merged
    /\ "fail-fast" \in DOMAIN argv
    /\ "failFast" \in DOMAIN conf
    /\ conf["failFast"] # argv["fail-fast"]
    /\ combined["failFast"] = argv["fail-fast"]

----------------------------------------------------------------------------
(* C5: concurrency validation. Once the concurrency check has been           *)
(* evaluated, the process has ended on it with exit code 1 and the          *)
(* 'nonnegative integer' message exactly when the merged configuration      *)
(* holds a concurrency value that is negative or not an integer; every      *)
(* nonnegative integer, 0 included, and an absent concurrency pass.         *)
C5_NonnegativeInteger(v) ==
    /\ v.t = "number"
    /\ \E k \in 0 .. (IF v.n > 0 THEN v.n ELSE 0) : k * v.d = v.n

C5_ConcurrencyValidation ==
    "concurrency" \in Range(checks) =>
      LET rejected == /\ Exited
                      /\ exitCode = 1
                      /\ stderr = <<MsgConcurrency>>
                      /\ checks[Len(checks)] = "concurrency"
      IN  rejected <=> /\ "concurrency" \in DOMAIN combined
                       /\ ~C5_NonnegativeInteger(combined["concurrency"])

C5_Witness ==
    /\ "concurrency" \in Range(checks)
    /\ pc = "legacy"
    /\ Get(combined, "concurrency") = Num(0, 1)

----------------------------------------------------------------------------
(* C6, as stated: whenever a legacy key is present in the persisted          *)
(* configuration the invocation ends with exit code 1 and that key's        *)
(* message, whatever the command and the flags.                             *)
C6_LegacyKeyAlwaysFatal ==
    \A i \in DOMAIN LegacyKeys :
        (Exited /\ ~cmdline.help /\ LegacyKeys[i] \in DOMAIN conf) =>
            /\ exitCode = 1
            /\ stderr = <<LegacyMessage(LegacyKeys[i])>>

(* C6, amended: a configuration that holds a legacy key never gets past the  *)
(* legacy-key checks (no preparation, engine, reporter or Watcher), and     *)
(* every invocation with it that is not reset-cache or --help ends with     *)
(* exit code 1. The message is the key's own whenever the key's check is    *)
(* reached, that is unless an earlier check failed first: the watch and     *)
(* debug guards, the concurrency check, or the check of a legacy key that   *)
(* comes before it. reset-cache never reaches the check.                    *)
C6_EarlierMessages(i) ==
    {MsgWatchTap, MsgWatchCi, MsgWatchDebug, MsgDebugTap, MsgDebugCi, MsgConcurrency}
    \cup {LegacyMessage(LegacyKeys[j]) : j \in 1 .. (i - 1)}

C6_LegacyKeyFatalWhenReached ==
    \A i \in DOMAIN LegacyKeys :
        LegacyKeys[i] \in DOMAIN conf =>
            /\ pc \notin {"prepare", "api", "reporter", "dispatch", "watching", "running"}
            /\ ~EngineConstructed
            /\ reporter = "none"
            /\ ~watcher
            /\ LegacyKeys[i] \in Range(checks) =>
                  /\ Exited
                  /\ exitCode = 1
                  /\ stderr = <<LegacyMessage(LegacyKeys[i])>>
            /\ (Exited /\ ~cmdline.help /\ ~resetCache) =>
                  /\ exitCode = 1
                  /\ Len(stderr) = 1
                  /\ \/ stderr[1] = LegacyMessage(LegacyKeys[i])
                     \/ stderr[1] \in C6_EarlierMessages(i)
            /\ resetCache => Range(checks) \subseteq {"confError"}

C6_Witness ==
    /\ Exited
    /\ "sources" \in DOMAIN conf
    /\ Truthy(Get(argv, "tap"))
    /\ debug # Null
    /\ exitCode = 1
    /\ stderr = <<MsgSources>>

----------------------------------------------------------------------------
(* C7: the TAP incompatibility rule. An invocation in watch mode (watch      *)
(* enabled by the flag or by the persisted configuration) that has got past *)
(* the watch guards has ended with exit code 1 and the watch-mode TAP       *)
(* message exactly when tap was requested by the flag and the persisted     *)
(* configuration does not set tap; likewise for a debug invocation that is  *)
(* not in watch mode, the debug guards and the debugging TAP message.       *)
C7_TapByFlagOnly == Truthy(Get(cmdline.flags, "tap")) /\ ~Truthy(Get(cfgFile.conf, "tap"))

C7_EndedWith(message) == Exited /\ exitCode = 1 /\ stderr = <<message>>

C7_TapIncompatibility ==
    (Merged /\ confError = Null /\ ~resetCache) =>
      /\ (WatchEnabled /\ pc \notin {"confError", "resetCache", "watchGuards"}) =>
            (C7_EndedWith(MsgWatchTap) <=> C7_TapByFlagOnly)
      /\ (debug # Null /\ ~WatchEnabled
            /\ pc \notin {"confError", "resetCache", "watchGuards", "debugGuards"}) =>
            (C7_EndedWith(MsgDebugTap) <=> C7_TapByFlagOnly)

----------------------------------------------------------------------------
(* C8: under continuous integration no Watcher is ever constructed and the   *)
(* engine is never constructed with a non-null debug descriptor; an         *)
(* invocation in watch or debug mode that ends there ends with exit code 1. *)
C8_NoWatchOrDebugInCi ==
    isCi =>
      /\ ~watcher
      /\ pc # "watching"
      /\ EngineConstructed => api.debug = Null
      /\ (Exited /\ Merged /\ ~resetCache /\ (WatchEnabled \/ debug # Null)) => exitCode = 1

----------------------------------------------------------------------------
(* C9: reset-cache is terminal. With the configuration loaded, a reset-cache *)
(* invocation ends with exit code 0 and the confirmation after a successful *)
(* deletion, and with exit code 1 and the removal error alone (never the    *)
(* confirmation) after a failed one; no watch, debug, concurrency or        *)
(* legacy-key check is evaluated and neither engine, reporter nor Watcher   *)
(* is constructed, whatever else the command line and configuration hold.   *)
C9_ResetCacheTerminal ==
    (resetCache /\ confError = Null) =>
      /\ pc \in {"merge", "confError", "resetCache", "del", "exited"}
      /\ Range(checks) \subseteq {"confError"}
      /\ ~EngineConstructed
      /\ reporter = "none"
      /\ ~watcher
      /\ Exited =>
            \/ /\ delState = "resolved"
               /\ exitCode = 0
               /\ stderr = <<MsgRemoved>>
            \/ /\ delState = "rejected"
               /\ exitCode = 1
               /\ Len(stderr) = 1
               /\ stderr[1].text = "Error removing AVA cache files"
               /\ MsgRemoved \notin Range(stderr)

C9_Witness ==
    /\ Exited
    /\ resetCache
    /\ confError = Null
    /\ Truthy(Get(argv, "watch"))
    /\ "helpers" \in DOMAIN conf
    /\ delState = "rejected"
    /\ exitCode = 1

----------------------------------------------------------------------------
(* C10: reset-cache is idempotent. A reset-cache run (configuration loaded,  *)
(* no --help) against a cache directory that holds no files ends with exit  *)
(* code 0 and leaves the directory as it was; and a reset-cache run that    *)
(* follows one that ended with exit code 0 also ends with exit code 0 and   *)
(* leaves the directory as the first one left it.                           *)
C10_Runs == IF Exited THEN Append(runs, ThisRun) ELSE runs

----------------------------------------------------------------------------
(* C11: reporter selection is the priority decision. Once a reporter is      *)
(* constructed it is TAP exactly when merged tap is set, merged watch is    *)
(* not and debug is not active; otherwise verbose exactly when debug is     *)
(* active, merged verbose is set, the process runs under CI or standard     *)
(* output is no terminal; otherwise mini. No reporter exists before the     *)
(* selection step, one exists after it and it is never replaced; TAP is     *)
(* never the reporter while watching or debugging.                          *)
C11_Tap     == Truthy(Get(combined, "tap"))
C11_Watch   == Truthy(Get(combined, "watch"))
C11_Verbose == Truthy(Get(combined, "verbose"))

C11_Decision ==
    /\ reporter \in {"none", "tap", "verbose", "mini"}
    /\ reporter = "none" <=> isTTY = "unread"
    /\ pc \in {"dispatch", "watching", "running", "returned"} => reporter # "none"
    /\ reporter # "none" =>
          /\ reporter = "tap" <=> (C11_Tap /\ ~C11_Watch /\ debug = Null)
          /\ reporter = "verbose" <=>
                /\ ~(C11_Tap /\ ~C11_Watch /\ debug = Null)
                /\ (debug # Null \/ C11_Verbose \/ isCi \/ isTTY = "notty")
          /\ reporter = "mini" <=>
                /\ ~(C11_Tap /\ ~C11_Watch /\ debug = Null)
                /\ ~(debug # Null \/ C11_Verbose \/ isCi \/ isTTY = "notty")
    /\ (watcher \/ debug # Null) => reporter # "tap"

C11_ReporterSelection ==
    /\ []C11_Decision
    /\ [][reporter # "none" => reporter' = reporter]_vars

C11_Witness ==
    /\ reporter = "verbose"
    /\ C11_Tap
    /\ C11_Watch
    /\ ~C11_Verbose
    /\ ~isCi
    /\ isTTY = "notty"
    /\ watcher

----------------------------------------------------------------------------
(* C15: no run starts after a fatal error. Whenever a fatal diagnostic was  *)
(* written (a configuration-load, validation or preparation check failed,   *)
(* or the cache deletion did), the process has ended with exit code 1 and   *)
(* that one diagnostic, and engine, reporter and Watcher were never         *)
(* constructed and the engine's run never called. No invocation whose       *)
(* inputs make one of the checks fail ever constructs any of them; when the *)
(* engine is constructed nothing was written to standard error, no exit     *)
(* code is set, the configuration was loaded and the concurrency and        *)
(* legacy-key checks were evaluated and passed. Reporter, Watcher and the   *)
(* call of run exist only after the engine.                                 *)
C15_NothingStarted ==
    /\ ~EngineConstructed
    /\ reporter = "none"
    /\ ~watcher
    /\ apiRunCalls = 0
    /\ pc \notin {"reporter", "dispatch", "watching", "running"}

C15_NoRunAfterFatal ==
    /\ (\E i \in DOMAIN stderr : stderr[i] # MsgRemoved) =>
          /\ Exited
          /\ exitCode = 1
          /\ Len(stderr) = 1
          /\ C15_NothingStarted
    /\ ~C15_NothingStarted => \A i \in DOMAIN CheckOrder : ~CheckViolated(CheckOrder[i])
    /\ pc = "rejected" => C15_NothingStarted
    /\ EngineConstructed =>
          /\ stderr = <<>>
          /\ exitCode = NoCode
          /\ confError = Null
          /\ ~resetCache
          /\ {"confError", "concurrency", "compileEnhancements", "helpers", "sources"} \subseteq Range(checks)
    /\ (reporter # "none" \/ watcher \/ apiRunCalls > 0) => EngineConstructed

C15_Witness ==
    /\ Exited
    /\ exitCode = 1
    /\ stderr = <<Msg("error.message")>>
    /\ {"watchDebug", "sources"} \subseteq Range(checks)
    /\ C15_NothingStarted

----------------------------------------------------------------------------
(* C16: clean-project defaults. With the run command, no flags, an empty    *)
(* persisted configuration that loaded, and outside CI, no validation check *)
(* fails (the only diagnostic there can be is a preparation helper's), all  *)
(* ten checks that apply were passed before the preparation, the engine is  *)
(* constructed with concurrency 0, timeout '10s', failWithoutAssertions     *)
(* true, cacheEnabled true, an empty match list and a null debug            *)
(* descriptor, no Watcher is ever constructed, run() calls the engine's run *)
(* and, standard output being a terminal, the reporter is the mini one.     *)
C16_Clean ==
    /\ cfgFile = [error |-> Null, conf |-> EmptyObject]
    /\ cmdline.command = "run"
    /\ cmdline.flags = EmptyObject
    /\ ~cmdline.help
    /\ ~isCi

C16_CleanProjectDefaults ==
    C16_Clean =>
      /\ \A i \in DOMAIN CheckOrder : ~CheckViolated(CheckOrder[i])
      /\ Range(stderr) \subseteq {Msg("error.message")}
      /\ Range(stdout) = {}
      /\ delState = "idle"
      /\ pc \in {"prepare", "rejected", "api", "reporter", "dispatch", "running"} =>
            checks = <<"confError", "concurrency", "compileEnhancements", "helpers", "sources">>
      /\ pc \in {"reporter", "dispatch", "running"} =>
            /\ EngineConstructed
            /\ api.concurrency = Num(0, 1)
            /\ api.timeout = Str(10)
            /\ api.failWithoutAssertions = TRUE
            /\ api.cacheEnabled = TRUE
            /\ api.match = <<>>
            /\ api.debug = Null
      /\ ~watcher
      /\ pc # "watching"
      /\ pc \in {"dispatch", "running"} => (reporter = "mini" <=> isTTY = "tty")
      /\ pc = "running" => apiRunCalls = 1

C16_Witness ==
    /\ C16_Clean
    /\ pc = "running"
    /\ isTTY = "tty"
    /\ reporter = "mini"
    /\ api.concurrency = Num(0, 1)
    /\ api.timeout = Str(10)
    /\ apiRunCalls = 1

----------------------------------------------------------------------------
(* C17: the fatal checks are evaluated in a fixed order and the first       *)
(* failing one alone decides the diagnostic. The checks evaluated so far    *)
(* are always in the order configuration-load error, watch+TAP, watch in    *)
(* CI, watch+debug, debug+TAP, debug in CI, concurrency,                    *)
(* compileEnhancements, helpers, sources, and all but the last one          *)
(* evaluated passed. For an invocation (not --help, not reset-cache) whose  *)
(* inputs violate one or more checks, run() never gets past the checks, no  *)
(* check that comes after the earliest violated one is ever evaluated, and  *)
(* when the process ends it has written exactly one diagnostic, the         *)
(* earliest violated check's, with exit code 1. A reset-cache invocation    *)
(* leaves the chain at the reset-cache branch: only the configuration-load  *)
(* check is evaluated.                                                      *)
C17_Position == [check \in Range(CheckOrder) |->
                    CHOOSE i \in DOMAIN CheckOrder : CheckOrder[i] = check]

C17_Violations == {i \in DOMAIN CheckOrder : CheckViolated(CheckOrder[i])}

C17_Earliest(violations) == CHOOSE i \in violations : \A j \in violations : i <= j

C17_FixedCheckOrder ==
    ~cmdline.help =>
      LET violations == C17_Violations
          evaluated  == [k \in DOMAIN checks |-> C17_Position[checks[k]]]
          last       == Len(checks)
      IN  /\ Range(checks) \subseteq Range(CheckOrder)
          /\ \A k \in 1 .. (last - 1) :
                /\ evaluated[k] < evaluated[k + 1]
                /\ evaluated[k] \notin violations
          /\ cmdline.command = "reset-cache" => Range(checks) \subseteq {"confError"}
          /\ (cmdline.command # "reset-cache" /\ violations # {}) =>
                LET earliest == C17_Earliest(violations) IN
                /\ pc \notin {"prepare", "rejected", "api", "reporter", "dispatch",
                               "watching", "running", "del"}
                /\ last > 0 => evaluated[last] <= earliest
                /\ Len(stderr) <= 1
                /\ (Exited \/ stderr # <<>> \/ (last > 0 /\ evaluated[last] = earliest)) =>
                      /\ Exited
                      /\ exitCode = 1
                      /\ checks[last] = CheckOrder[earliest]
                      /\ stderr = <<CheckMessage(CheckOrder[earliest])>>
          /\ (cmdline.command # "reset-cache" /\ violations = {}) =>
                Range(stderr) \subseteq {Msg("error.message")}

C17_Witness ==
    /\ Exited
    /\ CheckViolated("watchCi")
    /\ CheckViolated("concurrency")
    /\ CheckViolated("helpers")
    /\ CheckViolated("sources")
    /\ checks = <<"confError", "watchTap", "watchCi">>
    /\ stderr = <<MsgWatchCi>>
    /\ exitCode = 1

----------------------------------------------------------------------------
(* C20: the persisted and the merged configuration are read-only after the  *)
(* merge. The persisted configuration is assigned by the load step only and *)
(* the merged one by the merge step only; the merge leaves the persisted    *)
(* configuration as it is and keeps every one of its keys in the copy; no   *)
(* later step (validation, reset-cache, preparation, engine construction,   *)
(* reporter selection, dispatch) changes either. So from the merge on the   *)
(* persisted configuration is what the file held and the merged one is the  *)
(* merge of it with the command line.                                       *)
C20_Persisted == IF cfgFile.error = Null THEN cfgFile.conf ELSE EmptyObject

C20_Settled ==
    /\ pc # "loadConfig" => conf = C20_Persisted
    /\ Merged => combined = MergeFlags(C20_Persisted, cmdline.flags)
    /\ Merged => DOMAIN conf \subseteq DOMAIN combined

C20_Frame ==
    /\ pc # "loadConfig" => conf' = conf
    /\ pc # "merge" => combined' = combined

C20_ReadOnlyAfterMerge ==
    /\ []C20_Settled
    /\ [][C20_Frame]_vars

C20_Witness ==
    /\ pc \in {"watching", "running"}
    /\ conf = cfgFile.conf
    /\ "match" \in DOMAIN conf
    /\ "match" \in DOMAIN argv
    /\ combined["match"] = argv["match"]
    /\ combined["match"] # conf["match"]
    /\ DOMAIN combined # DOMAIN conf

----------------------------------------------------------------------------
(* Vocabulary of the run-phase properties *)

\* the stateChange listener of some plan has received an 'interrupt'
Interrupted == \E k \in DOMAIN handled : handled[k].type = "interrupt"

\* the step delivers an event to a plan's listener
Delivers(type) ==
    /\ Len(handled') = Len(handled) + 1
    /\ handled'[Len(handled')].type = type

\* the number of calls c on the reporter so far
Calls(c) == Cardinality({k \in DOMAIN reporterCalls : reporterCalls[k] = c})

----------------------------------------------------------------------------
(* C12: interrupt preemption. A step that delivers an 'interrupt' event to  *)
(* the listener of a plan calls the reporter's endRun (once, as the last    *)
(* reporter call) and ends the process with exit code 1 in that same step,  *)
(* whether api.run() is still in flight or not, and leaves the engine's     *)
(* result as it was; a step that delivers an event of another type changes  *)
(* neither the control state, the exit code nor the reporter calls. Once an *)
(* interrupt was delivered the process has ended with exit code 1, the      *)
(* interrupt is the last event handled and nothing changes any more.        *)
C12_AfterInterrupt ==
    Interrupted =>
      /\ Exited
      /\ exitCode = 1
      /\ handled[Len(handled)].type = "interrupt"
      /\ \A k \in 1 .. (Len(handled) - 1) : handled[k].type # "interrupt"
      /\ reporterCalls # <<>>
      /\ reporterCalls[Len(reporterCalls)] = EndRun

C12_Step ==
    /\ Delivers("interrupt") =>
          /\ reporterCalls' = Append(reporterCalls, EndRun)
          /\ exitCode' = 1
          /\ pc' = "exited"
          /\ runStatus' = runStatus
          /\ stderr' = stderr
    /\ Delivers("other") =>
          /\ pc' = pc
          /\ exitCode' = exitCode
          /\ reporterCalls' = reporterCalls
          /\ stderr' = stderr
    /\ Interrupted => (exitCode' = exitCode /\ pc' = pc /\ runStatus' = runStatus)

C12_InterruptPreemption ==
    /\ []C12_AfterInterrupt
    /\ [][C12_Step]_vars

C12_Witness ==
    /\ Exited
    /\ exitCode = 1
    /\ apiRunCalls = 1
    /\ runStatus = Null
    /\ Len(handled) = 2
    /\ handled[1].type = "other"
    /\ handled[2].type = "interrupt"
    /\ reporterCalls = <<StartRun(1), EndRun>>

----------------------------------------------------------------------------
(* C13: the debug single-file rule. On the one-shot path the flag           *)
(* debugWithoutSpecificFile is set exactly when some announced plan was a   *)
(* debug plan whose number of files is not one. If a debug plan with more   *)
(* than one file was announced, then once api.run() has resolved the        *)
(* process has ended with exit code 1 and the 'Provide the path' message    *)
(* alone, whatever the result suggests, and endRun was not called for the   *)
(* completion. The message is never written in watch mode, before the run   *)
(* has resolved, or when every announced debug plan had exactly one file.   *)
C13_Announced(i) == plans[i].announced /\ plans[i].debug

C13_SeveralFiles == \E i \in DOMAIN plans : C13_Announced(i) /\ plans[i].files > 1

C13_NotOneFile == \E i \in DOMAIN plans : C13_Announced(i) /\ plans[i].files # 1

C13_DebugSingleFile ==
    /\ apiRunCalls = 1 => (debugWithoutSpecificFile <=> C13_NotOneFile)
    /\ apiRunCalls = 0 => ~debugWithoutSpecificFile
    /\ (runStatus # Null /\ C13_SeveralFiles) =>
          /\ Exited
          /\ exitCode = 1
          /\ stderr = <<MsgDebugFile>>
          /\ Calls(EndRun) = 0
    /\ MsgDebugFile \in Range(stderr) =>
          /\ runStatus # Null
          /\ apiRunCalls = 1
          /\ ~watcher
          /\ C13_NotOneFile
    /\ (runStatus # Null /\ ~C13_NotOneFile) =>
          /\ stderr = <<>>
          /\ Calls(EndRun) >= 1
          /\ ~Interrupted => (pc = "returned" /\ exitCode \in {0, 1})

C13_Witness ==
    /\ Exited
    /\ exitCode = 1
    /\ stderr = <<MsgDebugFile>>
    /\ debug # Null
    /\ Len(debug.files) = 2
    /\ Len(plans) = 1
    /\ plans[1].debug
    /\ plans[1].files = 2
    /\ runStatus = [matching |-> 0, notMatching |-> 0]

----------------------------------------------------------------------------
(* C14: the one-shot exit code. Once api.run() has resolved, with no debug  *)
(* plan lacking its single file and no interrupt delivered, run() has       *)
(* returned, nothing was written to standard error, endRun was the last     *)
(* reporter call, and the exit code is the one the result suggests for      *)
(* matching = (a match pattern was supplied): the match value in force is   *)
(* the command line's when given, else the persisted one, and both an       *)
(* absent value and the empty string give the empty pattern list and        *)
(* matching = false.                                                        *)
C14_MatchValue ==
    IF "match" \in DOMAIN cmdline.flags
    THEN cmdline.flags["match"]
    ELSE Get(cfgFile.conf, "match")

C14_Matching == C14_MatchValue # Undefined /\ C14_MatchValue # Str(0)

C14_OneShotExitCode ==
    (runStatus # Null /\ ~debugWithoutSpecificFile /\ ~Interrupted) =>
      /\ pc = "returned"
      /\ stderr = <<>>
      /\ api.match = IF C14_Matching THEN <<C14_MatchValue>> ELSE <<>>
      /\ exitCode = IF C14_Matching THEN runStatus.matching ELSE runStatus.notMatching
      /\ reporterCalls[Len(reporterCalls)] = EndRun
      /\ Calls(EndRun) = 1

C14_Witness ==
    /\ pc = "returned"
    /\ ~Interrupted
    /\ Get(conf, "match") = Str(1)
    /\ Get(argv, "match") = Str(0)
    /\ api.match = <<>>
    /\ runStatus = [matching |-> 1, notMatching |-> 0]
    /\ exitCode = 0

----------------------------------------------------------------------------
(* C18: startRun comes before any event handling. Every announced plan has  *)
(* had exactly one startRun call and has exactly one stateChange listener;  *)
(* a plan not announced yet has neither. Every event that was handled       *)
(* belongs to an announced plan, and the step that handles an event of a    *)
(* plan finds the plan announced, its startRun already called and its one   *)
(* listener registered; an event emitted before that is handled by nobody.  *)
C18_Registered ==
    /\ \A i \in DOMAIN plans :
          /\ plans[i].listeners = IF plans[i].announced THEN 1 ELSE 0
          /\ Calls(StartRun(i)) = IF plans[i].announced THEN 1 ELSE 0
    /\ \A k \in DOMAIN handled :
          /\ handled[k].plan \in DOMAIN plans
          /\ plans[handled[k].plan].announced
    /\ \A k \in DOMAIN reporterCalls :
          reporterCalls[k].call = "startRun" => reporterCalls[k].plan \in DOMAIN plans
    /\ Len(handled) <= emitted

C18_Step ==
    Len(handled') > Len(handled) =>
        LET i == handled'[Len(handled')].plan IN
        /\ Len(handled') = Len(handled) + 1
        /\ plans[i].announced
        /\ plans[i].listeners = 1
        /\ StartRun(i) \in Range(reporterCalls)

C18_StartRunFirst ==
    /\ []C18_Registered
    /\ [][C18_Step]_vars

C18_Witness ==
    /\ Len(plans) = 1
    /\ plans[1].announced
    /\ emitted = 2
    /\ handled = <<[plan |-> 1, type |-> "other"]>>
    /\ reporterCalls = <<StartRun(1)>>

----------------------------------------------------------------------------
(* C19: watch mode. Once the Watcher is constructed run() has not called    *)
(* api.run and never does, holds no engine result, has written no           *)
(* diagnostic and sets no exit code: the process stays in watch mode with   *)
(* no exit code until an 'interrupt' event is delivered, which ends it with *)
(* exit code 1 after one endRun. The step that constructs the Watcher       *)
(* changes nothing else of what the process shows, and the Watcher is       *)
(* constructed exactly on the path that merged watch selects.               *)
C19_Watching ==
    /\ watcher =>
          /\ Truthy(Get(combined, "watch"))
          /\ pc \in {"watching", "exited"}
          /\ apiRunCalls = 0
          /\ runStatus = Null
          /\ ~debugWithoutSpecificFile
          /\ stderr = <<>>
          /\ pc = "watching" => (exitCode = NoCode /\ Calls(EndRun) = 0 /\ ~Interrupted)
          /\ Exited => (exitCode = 1 /\ Interrupted /\ Calls(EndRun) = 1)
    /\ pc = "watching" => watcher
    /\ pc \in {"running", "returned"} => (~watcher /\ ~Truthy(Get(combined, "watch")))

C19_Step ==
    /\ (~watcher /\ watcher') =>
          /\ pc = "dispatch"
          /\ pc' = "watching"
          /\ UNCHANGED <<exitCode, stderr, stdout, api, reporter, runVars>>
    /\ watcher => watcher'
    /\ (watcher /\ (exitCode' # exitCode \/ pc' # pc)) =>
          /\ Delivers("interrupt")
          /\ exitCode' = 1
          /\ pc' = "exited"

C19_WatchModeDelegates ==
    /\ []C19_Watching
    /\ [][C19_Step]_vars

C19_Witness ==
    /\ watcher
    /\ Exited
    /\ exitCode = 1
    /\ apiRunCalls = 0
    /\ Len(plans) = 2
    /\ plans[1].announced
    /\ plans[2].announced
    /\ handled = <<[plan |-> 1, type |-> "other"], [plan |-> 2, type |-> "interrupt"]>>

----------------------------------------------------------------------------
(* C21: on the one-shot path the exit decision is final and endRun is       *)
(* called at most once. In an invocation that called api.run, endRun is     *)
(* never called twice, and no interrupt is handled after api.run() has      *)
(* resolved and the exit code was taken from its result (which would        *)
(* replace that exit code by the interrupt's 1).                            *)
C21_ExitDecisionFinal ==
    apiRunCalls = 1 =>
      /\ Calls(EndRun) <= 1
      /\ ~(runStatus # Null /\ ~debugWithoutSpecificFile /\ Interrupted)

----------------------------------------------------------------------------
(* C22: every invocation that is not in watch mode eventually reaches an    *)
(* exit decision. Given that the cache deletion and api.run() settle, every *)
(* invocation eventually constructs the Watcher, ends the process or sets   *)
(* the exit code; and whenever run() has returned from the one-shot path    *)
(* the exit code is set and endRun has been called.                         *)
C22_Decided == Exited \/ exitCode # NoCode

C22_EventuallyDecides ==
    /\ <>(C22_Decided \/ watcher)
    /\ [](pc = "returned" => (exitCode # NoCode /\ Calls(EndRun) >= 1))

====
